---- MODULE Spec2Model ----
(***************************************************************************)
(* A model of src/app.py, the "AI Financial Coach" Streamlit script: the   *)
(* derived-metrics block, the assembly of user_data / input_df, the rule   *)
(* engine generate_nudges, classify_nudge_priority and the Analyze button  *)
(* handler.                                                                *)
(*                                                                         *)
(* Numbers.  The script computes with Python floats.  The model computes   *)
(* with the same values: IEEE-754 binary64, every +, -, *, / rounded to    *)
(* nearest (ties to even), and a literal such as 0.85 is the double        *)
(* nearest to it.  Infinities, NaN and subnormals are outside the range    *)
(* the modelled inputs reach and are not represented.  The ints of the     *)
(* script (age, dependents, the 0/1 of the one-hot fields, the bool        *)
(* Overspending_Alert) are stored as the doubles equal to them.            *)
(*                                                                         *)
(* Text.  TLA+ strings are ASCII, so an emoji of the source is written as  *)
(* its short code (":x:" is U+274C).  A message is the sequence of its     *)
(* text pieces and Python's `pat in msg` is a search for a contiguous run  *)
(* of pieces.                                                              *)
(***************************************************************************)
EXTENDS Integers, Sequences, FiniteSets

VARIABLES
  pc,            \* position of the script / handler
  inputs,        \* the widget values (lines 30-59)
  feature_cols,  \* the loaded schema (line 20)
  stack,         \* behaviour of the loaded artifacts scaler/model/kmeans/pca
  user_data,     \* the dict of lines 77-101, in insertion order
  input_df,      \* the one-row frame of line 103, as its ordered columns
  results,       \* locals of the handler: savings_prediction, cluster
  nudges,        \* list returned by generate_nudges
  priority,      \* value returned by classify_nudge_priority
  shown,         \* what the script has rendered so far, in order
  calls          \* how often each predictor was called inside the handler

vars == <<pc, inputs, feature_cols, stack, user_data, input_df, results,
          nudges, priority, shown, calls>>

(***************************************************************************)
(* Natural numbers of any size: the sequence of base-2^15 limbs, least     *)
(* significant first, without leading zero limbs (zero is <<>>).           *)
(***************************************************************************)
Base == 2^15

RECURSIVE BStrip(_)
BStrip(a) ==
  IF a = <<>> THEN a
  ELSE IF a[Len(a)] = 0 THEN BStrip(SubSeq(a, 1, Len(a) - 1)) ELSE a

\* a natural number below 2^31 as limbs
RECURSIVE BFromInt(_)
BFromInt(n) == IF n = 0 THEN <<>> ELSE <<n % Base>> \o BFromInt(n \div Base)

Limb(a, i) == IF i <= Len(a) THEN a[i] ELSE 0

RECURSIVE BAddFrom(_, _, _, _)
BAddFrom(a, b, i, c) ==
  IF i > Len(a) /\ i > Len(b) THEN (IF c = 0 THEN <<>> ELSE <<c>>)
  ELSE LET t == Limb(a, i) + Limb(b, i) + c IN
       <<t % Base>> \o BAddFrom(a, b, i + 1, t \div Base)

BAdd(a, b) == BAddFrom(a, b, 1, 0)

\* a - b for a >= b
RECURSIVE BSubFrom(_, _, _, _)
BSubFrom(a, b, i, bo) ==
  IF i > Len(a) THEN <<>>
  ELSE LET t == a[i] - Limb(b, i) - bo IN
       <<IF t < 0 THEN t + Base ELSE t>> \o BSubFrom(a, b, i + 1, IF t < 0 THEN 1 ELSE 0)

BSub(a, b) == BStrip(BSubFrom(a, b, 1, 0))

RECURSIVE BCmpAt(_, _, _)
BCmpAt(a, b, i) ==
  IF i = 0 THEN 0
  ELSE IF a[i] # b[i] THEN (IF a[i] > b[i] THEN 1 ELSE -1)
  ELSE BCmpAt(a, b, i - 1)

\* -1, 0, 1 as a < b, a = b, a > b
BCmp(a, b) ==
  IF Len(a) # Len(b) THEN (IF Len(a) > Len(b) THEN 1 ELSE -1) ELSE BCmpAt(a, b, Len(a))

\* a * k + c for 0 <= k <= Base, 0 <= c < Base
RECURSIVE BMulSmallFrom(_, _, _, _)
BMulSmallFrom(a, k, i, c) ==
  IF i > Len(a) THEN (IF c = 0 THEN <<>> ELSE <<c>>)
  ELSE LET t == a[i] * k + c IN
       <<t % Base>> \o BMulSmallFrom(a, k, i + 1, t \div Base)

BMulSmall(a, k) == IF k = 0 THEN <<>> ELSE BMulSmallFrom(a, k, 1, 0)

RECURSIVE BMulFrom(_, _, _)
BMulFrom(a, b, j) ==
  IF j > Len(b) THEN <<>>
  ELSE BAdd(BMulSmall(a, b[j]), <<0>> \o BMulFrom(a, b, j + 1))

BMul(a, b) == BStrip(BMulFrom(a, b, 1))

\* a * 2^n
BShl(a, n) ==
  IF a = <<>> THEN <<>>
  ELSE [j \in 1..(n \div 15) |-> 0] \o BMulSmall(a, 2^(n % 15))

\* floor(a / k) for 0 < k <= Base
RECURSIVE BDivSmallAt(_, _, _, _)
BDivSmallAt(a, k, i, r) ==
  IF i = 0 THEN <<>>
  ELSE LET cur == r * Base + a[i] IN BDivSmallAt(a, k, i - 1, cur % k) \o <<cur \div k>>

\* floor(a / 2^n)
BShr(a, n) ==
  IF n \div 15 >= Len(a) THEN <<>>
  ELSE LET top == SubSeq(a, n \div 15 + 1, Len(a)) IN
       BStrip(BDivSmallAt(top, 2^(n % 15), Len(top), 0))

\* bit i of a (bit 0 is the least significant)
BBit(a, i) == (Limb(a, i \div 15 + 1) \div 2^(i % 15)) % 2

\* a mod 2^n = 0
BLowBitsZero(a, n) ==
  /\ \A j \in 1..(n \div 15) : Limb(a, j) = 0
  /\ Limb(a, n \div 15 + 1) % 2^(n % 15) = 0

RECURSIVE IntBitLen(_)
IntBitLen(n) == IF n = 0 THEN 0 ELSE 1 + IntBitLen(n \div 2)

BBitLen(a) == IF a = <<>> THEN 0 ELSE 15 * (Len(a) - 1) + IntBitLen(a[Len(a)])

\* the largest q with q * d <= cur, for cur < d * Base and d[Len(d)] >= Base / 2:
\* the two top limbs of cur over the top limb of d overestimate q, slightly
RECURSIVE FixDigit(_, _, _)
FixDigit(cur, d, q) ==
  IF BCmp(BMulSmall(d, q), cur) > 0 THEN FixDigit(cur, d, q - 1) ELSE q

TrialDigit(cur, d, est) == FixDigit(cur, d, IF est >= Base THEN Base - 1 ELSE est)

\* long division, one limb of n at a time from limb i down: r is the
\* remainder so far and qs the quotient limbs so far; the result is
\* <<quotient limbs, final remainder>>.  Each step settles its values
\* (v = v) before it hands them on.
RECURSIVE BDivLimbs(_, _, _, _, _)
BDivNext(n, d, i, r, qs) == IF r = r /\ qs = qs THEN BDivLimbs(n, d, i, r, qs) ELSE <<>>

BDivDigit(n, d, i, qs, cur, q) ==
  IF q = q THEN BDivNext(n, d, i - 1, BSub(cur, BMulSmall(d, q)), <<q>> \o qs) ELSE <<>>

BDivStep(n, d, i, qs, cur) ==
  IF cur = cur
    THEN BDivDigit(n, d, i, qs, cur,
           TrialDigit(cur, d, (Limb(cur, Len(d) + 1) * Base + Limb(cur, Len(d))) \div d[Len(d)]))
    ELSE <<>>

BDivLimbs(n, d, i, r, qs) ==
  IF i = 0 THEN <<qs, r>> ELSE BDivStep(n, d, i, qs, BStrip(<<n[i]>> \o r))

BDivResult(res) == <<BStrip(res[1]), res[2] # <<>> >>

BDivFrom(n, d, skip) ==
  BDivResult(BDivLimbs(n, d, Len(n) - skip, SubSeq(n, Len(n) - skip + 1, Len(n)), <<>>))

\* for d[Len(d)] >= Base / 2
BDivNormal(n, d) == BDivFrom(n, d, IF Len(n) >= Len(d) THEN Len(d) - 1 ELSE Len(n))

BDivSettled(n, d) == IF n = n /\ d = d THEN BDivNormal(n, d) ELSE <<>>

BDivShifted(n, d, sh) == BDivSettled(BShl(n, sh), BShl(d, sh))

\* <<floor(n / d), n mod d # 0>> for d # 0
BDivMod(n, d) == BDivShifted(n, d, 15 - IntBitLen(d[Len(d)]))

(***************************************************************************)
(* IEEE-754 binary64 values in the normal range: s * m * 2^e with s the    *)
(* sign (-1, 0, 1), m a 53-bit natural (2^52 <= m < 2^53) and e an         *)
(* integer; zero is s = 0.  Every operation rounds to nearest, ties to     *)
(* even.                                                                   *)
(***************************************************************************)
FZero == [s |-> 0, m |-> <<>>, e |-> 0]

\* s * q * 2^e for q <= 2^53
Carry(s, q, e) ==
  IF BBitLen(q) > 53 THEN [s |-> s, m |-> BShr(q, 1), e |-> e + 1] ELSE [s |-> s, m |-> q, e |-> e]

\* q, or q + 1 when the dropped bits are above one half, or are one half and q is odd
RoundHalfEven(s, q, e, half, rest) ==
  Carry(s, IF half /\ (rest \/ BBit(q, 0) = 1) THEN BAdd(q, <<1>>) ELSE q, e)

RoundBits(s, n, e, sticky, len) ==
  IF len <= 53 THEN [s |-> s, m |-> BShl(n, 53 - len), e |-> e - (53 - len)]
  ELSE RoundHalfEven(s, BShr(n, len - 53), e + len - 53, BBit(n, len - 54) = 1,
                     ~BLowBitsZero(n, len - 54) \/ sticky)

\* The double nearest to s * (n + t) * 2^e, where n > 0 and 0 <= t < 1 is
\* zero unless sticky.
RoundToDouble(s, n, e, sticky) == RoundBits(s, n, e, sticky, BBitLen(n))

RoundQuotient(sgn, qr, k) == RoundToDouble(sgn, qr[1], 0 - k, qr[2])

RoundScaled(sgn, n, d, k) == RoundQuotient(sgn, BDivMod(BShl(n, k), d), k)

RoundLengths(sgn, n, d, ln, ld) == RoundScaled(sgn, n, d, IF ld + 56 > ln THEN ld + 56 - ln ELSE 0)

\* the double nearest to sgn * n / d, for naturals n and d # 0
RoundRatio(sgn, n, d) ==
  IF n = <<>> THEN FZero ELSE RoundLengths(sgn, n, d, BBitLen(n), BBitLen(d))

\* float(n) for an integer n of the model
FromInt(n) ==
  IF n = 0 THEN FZero
  ELSE RoundToDouble(IF n < 0 THEN -1 ELSE 1, BFromInt(IF n < 0 THEN 0 - n ELSE n), 0, FALSE)

FNeg(x) == [x EXCEPT !.s = 0 - x.s]

\* a - b with the sign xs for a > b, b - a with the sign ys for a < b
FDifference(xs, ys, a, b, emin, c) ==
  IF c = 0 THEN FZero
  ELSE RoundToDouble(IF c > 0 THEN xs ELSE ys, IF c > 0 THEN BSub(a, b) ELSE BSub(b, a),
                     emin, FALSE)

FAddAligned(xs, ys, a, b, emin) ==
  IF xs = ys THEN RoundToDouble(xs, BAdd(a, b), emin, FALSE)
  ELSE FDifference(xs, ys, a, b, emin, BCmp(a, b))

FAddFrom(x, y, emin) == FAddAligned(x.s, y.s, BShl(x.m, x.e - emin), BShl(y.m, y.e - emin), emin)

\* x + y
FAdd(x, y) ==
  IF x.s = 0 THEN y
  ELSE IF y.s = 0 THEN x
  ELSE FAddFrom(x, y, IF x.e < y.e THEN x.e ELSE y.e)

\* x - y
FSub(x, y) == FAdd(x, FNeg(y))

\* x * y
FMul(x, y) ==
  IF x.s = 0 \/ y.s = 0 THEN FZero
  ELSE RoundToDouble(x.s * y.s, BMul(x.m, y.m), x.e + y.e, FALSE)

Scale(r, k) == [r EXCEPT !.e = r.e + k]

\* x / y for y # 0
FDiv(x, y) ==
  IF x.s = 0 THEN FZero ELSE Scale(RoundRatio(x.s * y.s, x.m, y.m), x.e - y.e)

\* -1, 0, 1 as x < y, x = y, x > y
FCmp(x, y) ==
  IF x.s # y.s THEN (IF x.s > y.s THEN 1 ELSE -1)
  ELSE IF x.s = 0 THEN 0
  ELSE LET mag == IF x.e # y.e THEN (IF x.e > y.e THEN 1 ELSE -1) ELSE BCmp(x.m, y.m) IN
       x.s * mag

\* x > y, x < y
FGt(x, y) == FCmp(x, y) > 0

FLt(x, y) == FCmp(x, y) < 0

\* the natural number written with the decimal digits ds, read three
\* digits at a time from the left after a first group of 1 to 3 digits
Digit(ds, i) == IF i >= 1 /\ i <= Len(ds) THEN ds[i] ELSE 0

RECURSIVE BFromDigits(_, _, _)
BFromDigits(ds, i, acc) ==
  IF i > Len(ds) THEN acc
  ELSE BFromDigits(ds, i + 3,
         BAdd(BMulSmall(acc, 1000),
              BFromInt(100 * Digit(ds, i) + 10 * Digit(ds, i + 1) + Digit(ds, i + 2))))

FirstGroup(ds, g) ==
  BFromDigits(ds, g + 1,
    BFromInt(100 * Digit(ds, g - 2) + 10 * Digit(ds, g - 1) + Digit(ds, g)))

BFromDecimal(ds) == FirstGroup(ds, ((Len(ds) - 1) % 3) + 1)

RECURSIVE BPow10(_)
BPow10(k) == IF k < 3 THEN BFromInt(10^k) ELSE BMulSmall(BPow10(k - 3), 1000)

\* float("<ds>e-<k>") : the double nearest to the decimal ds / 10^k
ParseDecimal(ds, k) == RoundRatio(1, BFromDecimal(ds), BPow10(k))

Signed(sgn, x) == IF sgn < 0 THEN FNeg(x) ELSE x

\* a literal of the source: the double nearest to n / 10^k (0.85 is Lit(85, 2))
Lit(n, k) == Signed(n, RoundRatio(1, BFromInt(IF n < 0 THEN 0 - n ELSE n), BPow10(k)))

\* the doubles next to x # 0 (math.nextafter towards +inf / -inf)
Enlarged(x, m1) ==
  IF BBitLen(m1) > 53 THEN [x EXCEPT !.m = BShr(m1, 1), !.e = x.e + 1] ELSE [x EXCEPT !.m = m1]

AwayFromZero(x) == Enlarged(x, BAdd(x.m, <<1>>))

Reduced(x, m1) ==
  IF BBitLen(m1) < 53 THEN [x EXCEPT !.m = BAdd(BShl(m1, 1), <<1>>), !.e = x.e - 1]
  ELSE [x EXCEPT !.m = m1]

TowardsZero(x) == Reduced(x, BSub(x.m, <<1>>))

NextUp(x) == IF x.s > 0 THEN AwayFromZero(x) ELSE TowardsZero(x)

NextDown(x) == IF x.s > 0 THEN TowardsZero(x) ELSE AwayFromZero(x)

\* x moved by j units in the last place
RECURSIVE Ulps(_, _)
Ulps(x, j) ==
  IF j = 0 THEN x ELSE IF j > 0 THEN Ulps(NextUp(x), j - 1) ELSE Ulps(NextDown(x), j + 1)

(***************************************************************************)
(* Thresholds of generate_nudges and classify_nudge_priority.              *)
(***************************************************************************)
OverspendHigh == Lit(10, 1)
OverspendMedium == Lit(85, 2)
SavingsGapHigh == Lit(-1, 1)
SavingsGapMedium == Lit(-5, 2)
DiscretionaryHigh == Lit(35, 2)
DiscretionaryMedium == Lit(25, 2)
RentHigh == Lit(4, 1)
RentMedium == Lit(3, 1)
LoanHigh == Lit(3, 1)
\* len(nudges) >= 3
CountForMedium == 3

(***************************************************************************)
(* A Python dict: a sequence of <<key, value>> in insertion order.         *)
(***************************************************************************)
Keys(d) == {d[i][1] : i \in DOMAIN d}

Get(d, k) == d[CHOOSE i \in DOMAIN d : d[i][1] = k][2]


(***************************************************************************)
(* The advisory strings of generate_nudges.                                *)
(***************************************************************************)
MsgOverspendHigh == <<":x:", "You've overspent this month.", "Consider cutting expenses.">>
MsgOverspendMedium == <<":warning:", "Close to overspending.", "Monitor your expenses.">>
MsgSavingsGapHigh == <<":moneybag:", "You are significantly", "below your savings goal.">>
MsgSavingsGapMedium == <<":moneybag:", "Below your savings", "target. Consider increasing savings.">>
MsgDiscretionaryHigh == <<":shopping:", "Very high", "discretionary spending.">>
MsgDiscretionaryMedium == <<":shopping:", "Consider reducing discretionary expenses.">>
MsgRentHigh == <<":house:", "Rent is too high", "relative to your income.">>
MsgRentMedium == <<":house:", "Consider lowering your housing costs.">>
MsgLoan == <<":chart_down:", "High loan repayment burden detected.">>

\* Python's `pat in msg`
Contains(pat, msg) ==
  \E i \in 1..(Len(msg) - Len(pat) + 1) : SubSeq(msg, i, i + Len(pat) - 1) = pat

(***************************************************************************)
(* generate_nudges(row), lines 114-139.                                    *)
(***************************************************************************)
\* variant: the two overspending conditions as independent ifs
OverspendingRuleIndependent(row) ==
  (IF FGt(Get(row, "Disposable_Utilization"), OverspendHigh) THEN <<MsgOverspendHigh>> ELSE <<>>)
    \o (IF FGt(Get(row, "Disposable_Utilization"), OverspendMedium)
        THEN <<MsgOverspendMedium>> ELSE <<>>)

OverspendingRule(row) ==
  IF FGt(Get(row, "Disposable_Utilization"), OverspendHigh) THEN <<MsgOverspendHigh>>
  ELSE IF FGt(Get(row, "Disposable_Utilization"), OverspendMedium) THEN <<MsgOverspendMedium>>
  ELSE <<>>

SavingsGapRule(row) ==
  IF FLt(Get(row, "Savings_vs_Desired"), SavingsGapHigh) THEN <<MsgSavingsGapHigh>>
  ELSE IF FLt(Get(row, "Savings_vs_Desired"), SavingsGapMedium) THEN <<MsgSavingsGapMedium>>
  ELSE <<>>

DiscretionaryRule(row) ==
  IF FGt(Get(row, "Discretionary_to_Income"), DiscretionaryHigh) THEN <<MsgDiscretionaryHigh>>
  ELSE IF FGt(Get(row, "Discretionary_to_Income"), DiscretionaryMedium) THEN <<MsgDiscretionaryMedium>>
  ELSE <<>>

\* variant: the rent conditions with >= for >
RentRuleInclusive(row) ==
  IF ~FLt(Get(row, "Rent_to_Income"), RentHigh) THEN <<MsgRentHigh>>
  ELSE IF ~FLt(Get(row, "Rent_to_Income"), RentMedium) THEN <<MsgRentMedium>>
  ELSE <<>>

RentRule(row) ==
  IF FGt(Get(row, "Rent_to_Income"), RentHigh) THEN <<MsgRentHigh>>
  ELSE IF FGt(Get(row, "Rent_to_Income"), RentMedium) THEN <<MsgRentMedium>>
  ELSE <<>>

LoanRule(row) ==
  IF FGt(Get(row, "Loan_to_Income"), LoanHigh) THEN <<MsgLoan>> ELSE <<>>

generate_nudges(row) ==
  OverspendingRule(row) \o SavingsGapRule(row) \o DiscretionaryRule(row)
    \o RentRule(row) \o LoanRule(row)

(***************************************************************************)
(* classify_nudge_priority(nudges), lines 141-151.                         *)
(***************************************************************************)
HighPatterns == {<<":x:">>, <<":moneybag:", "You are significantly">>, <<":house:", "Rent is too high">>}

MediumPatterns == {<<":warning:">>, <<":moneybag:", "Below your savings">>, <<":shopping:", "Very high">>}

AnyMatch(pats, ns) == \E j \in DOMAIN ns : \E p \in pats : Contains(p, ns[j])

\* variant: "Very high" listed among the high patterns
classify_VeryHighIsHigh(ns) ==
  IF AnyMatch(HighPatterns \cup {<<":shopping:", "Very high">>}, ns) THEN "High"
  ELSE IF AnyMatch(MediumPatterns, ns) \/ Len(ns) >= CountForMedium THEN "Medium"
  ELSE IF ns # <<>> THEN "Low"
  ELSE "None"

\* variant: every discretionary message listed among the medium patterns
classify_ShoppingIsMedium(ns) ==
  IF AnyMatch(HighPatterns, ns) THEN "High"
  ELSE IF AnyMatch(MediumPatterns \cup {<<":shopping:">>}, ns) \/ Len(ns) >= CountForMedium
    THEN "Medium"
  ELSE IF ns # <<>> THEN "Low"
  ELSE "None"

\* variant: without the count clause
classify_NoCount(ns) ==
  IF AnyMatch(HighPatterns, ns) THEN "High"
  ELSE IF AnyMatch(MediumPatterns, ns) THEN "Medium"
  ELSE IF ns # <<>> THEN "Low"
  ELSE "None"

\* variant: Low only for two or more nudges
classify_LowNeedsTwo(ns) ==
  IF AnyMatch(HighPatterns, ns) THEN "High"
  ELSE IF AnyMatch(MediumPatterns, ns) \/ Len(ns) >= CountForMedium THEN "Medium"
  ELSE IF Len(ns) > 1 THEN "Low"
  ELSE "None"

classify_nudge_priority(ns) ==
  IF AnyMatch(HighPatterns, ns) THEN "High"
  ELSE IF AnyMatch(MediumPatterns, ns) \/ Len(ns) >= CountForMedium THEN "Medium"
  ELSE IF ns # <<>> THEN "Low"
  ELSE "None"

(***************************************************************************)
(* A number widget holds the decimal text the user typed and returns the   *)
(* double nearest to it (st.number_input, lines 30-59).                    *)
(***************************************************************************)
\* the text "<sign><ds>" with the last k digits after the decimal point
Typed(sgn, ds, k) ==
  [sign |-> sgn, digits |-> ds, frac |-> k, value |-> Signed(sgn, ParseDecimal(ds, k))]

RECURSIVE IntDigits(_)
IntDigits(n) == IF n < 10 THEN <<n>> ELSE Append(IntDigits(n \div 10), n % 10)

\* a whole number of dollars
Whole(n) == Typed(IF n < 0 THEN -1 ELSE 1, IntDigits(IF n < 0 THEN 0 - n ELSE n), 0)

(***************************************************************************)
(* The derived metrics, lines 62-74.  inp is the record of widget values.  *)
(***************************************************************************)
fixed(inp) ==
  << <<"Rent", inp.rent.value>>, <<"Loan_Repayment", inp.loan_repay.value>>,
     <<"Insurance", inp.insurance.value>> >>

essential(inp) ==
  << <<"Groceries", inp.groceries.value>>, <<"Transport", inp.transport.value>>,
     <<"Utilities", inp.utilities.value>>, <<"Healthcare", inp.healthcare.value>>,
     <<"Education", inp.education.value>> >>

discretionary(inp) ==
  << <<"Eating_Out", inp.eating_out.value>>, <<"Entertainment", inp.entertainment.value>>,
     <<"Miscellaneous", inp.misc.value>> >>

\* sum(d.values()): ((0 + v1) + v2) + ... , each addition rounded
\* (CPython before 3.12; later versions compensate the additions, which
\* changes no sum whose partial sums are exact)
RECURSIVE SumFrom(_, _, _)
SumFrom(d, i, acc) == IF i > Len(d) THEN acc ELSE SumFrom(d, i + 1, FAdd(acc, d[i][2]))

SumValues(d) == SumFrom(d, 1, FZero)

\* variant: the fixed expenses left out of the total
total_expenses_NoFixed(inp) ==
  FAdd(SumValues(essential(inp)), SumValues(discretionary(inp)))

total_expenses(inp) ==
  FAdd(FAdd(SumValues(fixed(inp)), SumValues(essential(inp))), SumValues(discretionary(inp)))

discretionary_spend(inp) == SumValues(discretionary(inp))

\* variant: the divisions refuse every income <= 0
DeriveRaisesNonPositive(inp) == inp.income.value.s <= 0

\* Lines 68-74 raise ZeroDivisionError exactly when the divisor is 0.
DeriveRaises(inp) == inp.income.value.s = 0

\* The names bound by lines 66-74, for a divisor # 0.
MetricsFrom(inp, income, total, du) ==
  [ total_expenses |-> total,
    discretionary_to_income |-> FDiv(discretionary_spend(inp), income),
    disposable_utilization |-> du,
    savings_vs_desired |-> FDiv(FSub(inp.actual_savings.value, inp.desired_savings.value), income),
    rent_to_income |-> FDiv(inp.rent.value, income),
    loan_to_income |-> FDiv(inp.loan_repay.value, income),
    overspending_alert |-> FromInt(IF FGt(du, Lit(10, 1)) THEN 1 ELSE 0),
    savings_rate |-> FDiv(inp.actual_savings.value, income) ]

MetricsOfTotal(inp, total) == MetricsFrom(inp, inp.income.value, total, FDiv(total, inp.income.value))

DerivedMetrics(inp) == MetricsOfTotal(inp, total_expenses(inp))

(***************************************************************************)
(* user_data and input_df, lines 77-103.                                   *)
(***************************************************************************)
\* The dict literal of lines 77-92.
UserDataOf(inp, m) ==
  << <<"Income", inp.income.value>>,
     <<"Age", FromInt(inp.age)>>,
     <<"Dependents", FromInt(inp.dependents)>>,
     <<"Desired_Savings", inp.desired_savings.value>>,
     <<"Actual_Savings", inp.actual_savings.value>>,
     <<"Total_Expenses", m.total_expenses>>,
     <<"Disposable_Utilization", m.disposable_utilization>>,
     <<"Discretionary_to_Income", m.discretionary_to_income>>,
     <<"Savings_vs_Desired", m.savings_vs_desired>>,
     <<"Rent_to_Income", m.rent_to_income>>,
     <<"Loan_to_Income", m.loan_to_income>>,
     <<"Overspending_Alert", m.overspending_alert>>,
     <<"Savings_Rate", m.savings_rate>> >>
  \o fixed(inp) \o essential(inp) \o discretionary(inp)

UserDataLiteral(inp) == UserDataOf(inp, DerivedMetrics(inp))

Occupations == <<"Employed", "Self_Employed", "Student", "Retired">>

CityTiers == <<"Tier_1", "Tier_2", "Tier_3">>

\* d after `d[k] = v` for every <<k, v>> of items (distinct keys), in order:
\* a key of d keeps its place, a new key goes to the end
PutAll(d, items) ==
  [i \in DOMAIN d |-> IF d[i][1] \in Keys(items) THEN <<d[i][1], Get(items, d[i][1])>> ELSE d[i]]
    \o SelectSeq(items, LAMBDA kv : kv[1] \notin Keys(d))

\* for val in vals: d[prefix + val] = 1 if chosen == val else 0   (lines 95-98)
OneHot(d, prefix, vals, chosen) ==
  PutAll(d, [i \in DOMAIN vals |-> <<prefix \o vals[i], FromInt(IF chosen = vals[i] THEN 1 ELSE 0)>>])

\* the places of cols that name a column missing from d, each name once
MissingAt(d, cols) ==
  SelectSeq([i \in DOMAIN cols |-> i],
            LAMBDA i : cols[i] \notin Keys(d) /\ \A j \in 1..(i - 1) : cols[j] # cols[i])

FillAt(d, cols, at) == d \o [k \in DOMAIN at |-> <<cols[at[k]], FromInt(0)>>]

\* for col in cols: if col not in d: d[col] = 0   (lines 99-101)
FillMissing(d, cols) == FillAt(d, cols, MissingAt(d, cols))

\* user_data after line 101
AssembleUserData(inp, cols) ==
  FillMissing(
    OneHot(OneHot(UserDataLiteral(inp), "Occupation_", Occupations, inp.occupation),
           "City_Tier_", CityTiers, inp.city_tier),
    cols)

\* variant: the columns named by cols, in the order of d
SelectInDictOrder(d, cols) == SelectSeq(d, LAMBDA kv : \E i \in DOMAIN cols : cols[i] = kv[1])

\* pd.DataFrame([d])[cols] : the columns named by cols, in the order of cols
SelectColumns(d, cols) == [i \in DOMAIN cols |-> <<cols[i], Get(d, cols[i])>>]

(***************************************************************************)
(* The loaded artifacts (lines 16-19) are opaque functions of the input:   *)
(* for the input at hand each one either raises or returns its value.      *)
(***************************************************************************)
\* cluster ids 0..2 are in profile_map; one more id exercises the fallback
MaxCluster == 3

\* model.predict(...)[0] of line 159
ModelOutputs == {Lit(-2, 3), Lit(3, 3)}

Stacks ==
  { [scaler |-> [raises |-> sr],
     model |-> [raises |-> mr, out |-> mo],
     kmeans |-> [raises |-> kr, out |-> ko],
     pca |-> [raises |-> pr]] :
      sr \in BOOLEAN, mr \in BOOLEAN, mo \in ModelOutputs,
      kr \in BOOLEAN, ko \in 0..MaxCluster, pr \in BOOLEAN }

\* one representative per behaviour: a raising predictor has no output
DistinctStacks ==
  { st \in Stacks :
      /\ st.model.raises => st.model.out = Lit(-2, 3)
      /\ st.kmeans.raises => st.kmeans.out = 0 }

HealthyStacks ==
  { st \in DistinctStacks :
      /\ ~st.scaler.raises /\ ~st.model.raises /\ ~st.kmeans.raises /\ ~st.pca.raises
      /\ st.model.out = Lit(3, 3) /\ st.kmeans.out = 1 }

\* profile_map.get(cluster, 'N/A'), lines 107-111 and 174
profile_map(cluster) ==
  IF cluster = 0 THEN "Likely high spenders with low savings"
  ELSE IF cluster = 1 THEN "Balanced spenders with moderate savings"
  ELSE IF cluster = 2 THEN "Frugal individuals with strong savings habits"
  ELSE "N/A"

NoCalls == [scaler |-> 0, model |-> 0, kmeans |-> 0, pca |-> 0]

(***************************************************************************)
(* One run of the script body, lines 62-104: derive, assemble, scale.      *)
(* An exception here is not caught: the run stops.                         *)
(***************************************************************************)
Script ==
  /\ pc = "idle"
  /\ IF DeriveRaises(inputs)
       THEN /\ pc' = "crashed"
            /\ shown' = << <<"exception", "ZeroDivisionError">> >>
            /\ UNCHANGED <<user_data, input_df>>
       ELSE /\ user_data' = AssembleUserData(inputs, feature_cols)
            /\ input_df' = SelectColumns(user_data', feature_cols)
            /\ IF stack.scaler.raises
                 THEN /\ pc' = "crashed"
                      /\ shown' = << <<"exception", "scaler.transform">> >>
                 ELSE /\ pc' = "ready"
                      /\ UNCHANGED shown
  /\ UNCHANGED <<inputs, feature_cols, stack, results, nudges, priority, calls>>

(***************************************************************************)
(* The Analyze button handler, lines 155-182.                              *)
(***************************************************************************)
\* the first call of lines 158-161 that raises, or "none"
FirstFailure(st) ==
  IF st.scaler.raises THEN "scaler"
  ELSE IF st.model.raises THEN "model"
  ELSE IF st.kmeans.raises THEN "kmeans"
  ELSE IF st.pca.raises THEN "pca"
  ELSE "none"

\* the calls made up to and including the first one that raises
CallsMade(st) ==
  LET f == FirstFailure(st) IN
  [ scaler |-> 1,
    model |-> IF f = "scaler" THEN 0 ELSE 1,
    kmeans |-> IF f \in {"scaler", "model"} THEN 0 ELSE 1,
    pca |-> IF f \in {"scaler", "model", "kmeans"} THEN 0 ELSE 1 ]

\* lines 167-179: what is rendered, in order
Display(res, ns, prio) ==
  << <<"markdown", "---">>,
     <<"subheader", "Your Financial Snapshot">>,
     <<"metric", "Suggested Adjustment", res.savings_prediction>>,
     <<"metric", "Cluster", res.cluster>>,
     <<"metric", "Priority", prio>>,
     <<"markdown", "Profile Insight", profile_map(res.cluster)>> >>
  \o (IF ns # <<>> THEN << <<"subheader", "Nudges for You">> >> ELSE <<>>)
  \o [i \in DOMAIN ns |-> <<"nudge", ns[i]>>]

\* variant: the rule engine runs outside the try block, so its output is
\* shown when a predictor raises
AnalyzeDegraded ==
  /\ pc = "ready"
  /\ calls' = [k \in DOMAIN calls |-> calls[k] + CallsMade(stack)[k]]
  /\ nudges' = generate_nudges(user_data)
  /\ priority' = classify_nudge_priority(nudges')
  /\ IF FirstFailure(stack) # "none"
       THEN /\ pc' = "failed"
            /\ shown' = Append(shown, <<"error", "An error occurred during analysis", FirstFailure(stack)>>)
                          \o << <<"metric", "Priority", priority'>> >>
                          \o [i \in DOMAIN nudges' |-> <<"nudge", nudges'[i]>>]
            /\ UNCHANGED results
       ELSE /\ pc' = "done"
            /\ results' = [savings_prediction |-> FMul(stack.model.out, FromInt(1000000)),
                           cluster |-> stack.kmeans.out]
            /\ shown' = shown \o Display(results', nudges', priority')
  /\ UNCHANGED <<inputs, feature_cols, stack, user_data, input_df>>

Analyze ==
  /\ pc = "ready"
  /\ calls' = [k \in DOMAIN calls |-> calls[k] + CallsMade(stack)[k]]
  /\ IF FirstFailure(stack) # "none"
       THEN \* lines 181-182
            /\ pc' = "failed"
            /\ shown' = Append(shown, <<"error", "An error occurred during analysis", FirstFailure(stack)>>)
            /\ UNCHANGED <<results, nudges, priority>>
       ELSE /\ pc' = "done"
            /\ results' = [savings_prediction |-> FMul(stack.model.out, FromInt(1000000)),
                           cluster |-> stack.kmeans.out]
            /\ nudges' = generate_nudges(user_data)
            /\ priority' = classify_nudge_priority(nudges')
            /\ shown' = shown \o Display(results', nudges', priority')
  /\ UNCHANGED <<inputs, feature_cols, stack, user_data, input_df>>

Next == Script \/ Analyze

(***************************************************************************)
(* Widget values.                                                          *)
(***************************************************************************)
\* min_value of the income widget, in dollars
MinIncome == 1000

\* The thresholds are multiples of 0.05: whole amounts are laid on a grid of
\* one twentieth of the minimum income, so that a ratio can sit on a threshold.
Step == MinIncome \div 20

\* incomes MinIncome, MinIncome + Step, ... (the later ones are off the grid)
MaxIncomeSteps == 0

Incomes == {Whole(MinIncome + i * Step) : i \in 0..MaxIncomeSteps}

Widgets(inc, occ, city, des, act, ren, loa, ins, gro, tra, uti, hea, edu, eat, ent, mis) ==
  [ income |-> inc, age |-> 30, dependents |-> 1, occupation |-> occ, city_tier |-> city,
    desired_savings |-> des, actual_savings |-> act,
    rent |-> ren, loan_repay |-> loa, insurance |-> ins,
    groceries |-> gro, transport |-> tra, utilities |-> uti, healthcare |-> hea,
    education |-> edu, eating_out |-> eat, entertainment |-> ent, misc |-> mis ]

Times(S) == {Whole(k * Step) : k \in S}

\* the five essential amounts, in steps: none, each one alone, all together
EssentialSteps ==
  { <<0, 0, 0, 0, 0>>, <<2, 0, 0, 0, 0>>, <<0, 1, 0, 0, 0>>, <<0, 0, 1, 0, 0>>,
    <<0, 0, 0, 1, 0>>, <<0, 0, 0, 0, 1>>, <<2, 1, 1, 1, 1>> }

\* Widget states on the grid: every amount >= 0, income >= MinIncome.
\* With income = MinIncome: rent 0.30 / 0.35 / 0.40 / 0.45 of income, loan
\* 0.30 / 0.35, discretionary sums 0 .. 0.45, insurance and essentials
\* 0 .. 0.35, savings gap +0.05 .. -0.15.
InputsGrid ==
  { Widgets(inc, "Employed", "Tier_1", des, act, ren, loa, ins,
            Whole(ess[1] * Step), Whole(ess[2] * Step), Whole(ess[3] * Step),
            Whole(ess[4] * Step), Whole(ess[5] * Step), eat, ent, mis) :
      inc \in Incomes,
      des \in Times({0, 2, 3}), act \in Times({0, 1}),
      ren \in Times({0, 6, 7, 8, 9}), loa \in Times({0, 6, 7}),
      ins \in Times({0, 1}), ess \in EssentialSteps,
      eat \in Times({0, 3, 4}), ent \in Times({0, 3}), mis \in Times({0, 2}) }

\* Widget states typed to more places, around income 2628.97:
\* 788.691 is 0.30 of it and 657.2425 is 0.25 of it.
InputsFine ==
  { Widgets(Typed(1, <<2, 6, 2, 8, 9, 7>>, 2), "Employed", "Tier_1", Whole(0), Whole(0),
            ren, loa, ins, Whole(0), Whole(0), Whole(0), Whole(0), Whole(0),
            eat, Whole(0), Whole(0)) :
      ren \in {Whole(0), Typed(1, <<7, 8, 8, 6, 9, 1>>, 3), Typed(1, <<7, 8, 8, 7, 0>>, 2)},
      loa \in {Whole(0), Typed(1, <<7, 8, 8, 6, 9, 1>>, 3), Typed(1, <<7, 8, 8, 7, 0>>, 2)},
      ins \in {Whole(0), Typed(1, <<1>>, 2)},
      eat \in {Whole(0), Typed(1, <<6, 5, 7, 2, 4, 2, 5>>, 4),
               Typed(1, <<6, 5, 7, 2, 4, 2, 5, 0, 0, 0, 0, 0, 0, 0, 0, 1>>, 13),
               Typed(1, <<6, 5, 7, 2, 5>>, 2)} }

InputsE2E == InputsGrid \cup InputsFine

\* A schema: names the script provides, and two it does not.
DefaultSchema ==
  <<"Income", "Age", "Total_Expenses", "Disposable_Utilization", "Rent",
    "Occupation_Student", "City_Tier_Tier_2", "Credit_Score">>

Idle ==
  /\ pc = "idle"
  /\ user_data = <<>>
  /\ input_df = <<>>
  /\ results = <<>>
  /\ nudges = <<>>
  /\ priority = "unset"
  /\ shown = <<>>
  /\ calls = NoCalls

Init ==
  /\ Idle
  /\ inputs \in InputsE2E
  /\ feature_cols = DefaultSchema
  /\ stack \in HealthyStacks

Spec == Init /\ [][Next]_vars

(***************************************************************************)
(* The rule engine and the classifier applied as functions to any row of   *)
(* metrics (generate_nudges reads five keys of its argument).              *)
(***************************************************************************)
\* rows lie within Margin units in the last place of a threshold
Margin == 1

\* A row is described by, for each metric, the threshold it is near
\* ("high" or "medium") and its distance from it in units in the last place.
Offsets == (0 - Margin)..Margin

Near == {"high", "medium"} \X Offsets

RowDescriptions ==
  [ utilization : Near, savings : Near, discretionary : Near, rent : Near,
    loan : {"high"} \X Offsets ]

At(d, high, medium) == Ulps(IF d[1] = "high" THEN high ELSE medium, d[2])

Row(d) ==
  << <<"Disposable_Utilization", At(d.utilization, OverspendHigh, OverspendMedium)>>,
     <<"Savings_vs_Desired", At(d.savings, SavingsGapHigh, SavingsGapMedium)>>,
     <<"Discretionary_to_Income", At(d.discretionary, DiscretionaryHigh, DiscretionaryMedium)>>,
     <<"Rent_to_Income", At(d.rent, RentHigh, RentMedium)>>,
     <<"Loan_to_Income", At(d.loan, LoanHigh, LoanHigh)>> >>

InitRow ==
  /\ pc = "row"
  /\ inputs \in RowDescriptions
  /\ user_data = Row(inputs)
  /\ feature_cols = <<>>
  /\ stack \in HealthyStacks
  /\ input_df = <<>>
  /\ results = <<>>
  /\ nudges = <<>>
  /\ priority = "unset"
  /\ shown = <<>>
  /\ calls = NoCalls

\* nudges = generate_nudges(user_data), line 163
ApplyGenerate ==
  /\ pc = "row"
  /\ nudges' = generate_nudges(user_data)
  /\ pc' = "nudged"
  /\ UNCHANGED <<inputs, feature_cols, stack, user_data, input_df, results, priority, shown, calls>>

\* priority = classify_nudge_priority(nudges), line 164
ApplyClassify ==
  /\ pc = "nudged"
  /\ priority' = classify_nudge_priority(nudges)
  /\ pc' = "classified"
  /\ UNCHANGED <<inputs, feature_cols, stack, user_data, input_df, results, nudges, shown, calls>>

NextRow == ApplyGenerate \/ ApplyClassify

SpecRow == InitRow /\ [][NextRow]_vars

(***************************************************************************)
(* The derived-metrics block applied to any income, the values the income  *)
(* widget excludes among them.                                             *)
(***************************************************************************)
\* incomes -IncomeSpan * MinIncome .. IncomeSpan * MinIncome
IncomeSpan == 2

InputsDerive ==
  { Widgets(inc, "Student", "Tier_2", des, act, ren, loa, Whole(0), gro, Whole(0), Whole(0),
            Whole(0), Whole(0), eat, Whole(0), Whole(0)) :
      inc \in {Whole(k * MinIncome) : k \in (0 - IncomeSpan)..IncomeSpan},
      des \in Times({0, 3}), act \in Times({0, 1}),
      ren \in Times({0, 7}), loa \in Times({0, 7}),
      gro \in Times({0, 2}), eat \in Times({0, 6}) }

InitDerive ==
  /\ Idle
  /\ inputs \in InputsDerive
  /\ feature_cols = DefaultSchema
  /\ stack \in HealthyStacks

SpecDerive == InitDerive /\ [][Next]_vars

(***************************************************************************)
(* The assembly of input_df for any schema.                                *)
(***************************************************************************)
MaxSchemaLen == 3

\* names the script provides, and two it does not
SchemaNames ==
  {"Income", "Rent_to_Income", "Rent", "Occupation_Student", "City_Tier_Tier_2",
   "Credit_Score", "Occupation_Unemployed"}

RECURSIVE SeqsUpTo(_, _)
SeqsUpTo(S, n) ==
  IF n = 0 THEN {<<>>}
  ELSE LET shorter == SeqsUpTo(S, n - 1) IN
       shorter \cup {Append(q, x) : q \in {t \in shorter : Len(t) = n - 1}, x \in S}

InputsAssemble ==
  { Widgets(Whole(MinIncome), occ, city, Whole(Step), Whole(0), Whole(7 * Step), Whole(0),
            Whole(0), Whole(Step), Whole(0), Whole(0), Whole(0), Whole(0), Whole(0),
            Whole(0), Whole(0)) :
      occ \in {Occupations[i] : i \in DOMAIN Occupations},
      city \in {CityTiers[i] : i \in DOMAIN CityTiers} }

InitAssemble ==
  /\ Idle
  /\ inputs \in InputsAssemble
  /\ feature_cols \in SeqsUpTo(SchemaNames, MaxSchemaLen)
  /\ stack \in HealthyStacks

SpecAssemble == InitAssemble /\ [][Next]_vars

(***************************************************************************)
(* The Analyze handler under every behaviour of the artifacts.             *)
(***************************************************************************)
InputsAnalyze ==
  { Widgets(Whole(MinIncome), "Retired", "Tier_3", des, Whole(0), ren, Whole(0), Whole(0),
            Whole(0), Whole(0), Whole(0), Whole(0), Whole(0), eat, Whole(0), Whole(0)) :
      des \in Times({0, 3}), ren \in Times({0, 7}), eat \in Times({0, 6}) }

InitAnalyze ==
  /\ Idle
  /\ inputs \in InputsAnalyze
  /\ feature_cols = DefaultSchema
  /\ stack \in DistinctStacks

SpecAnalyze == InitAnalyze /\ [][Next]_vars

(***************************************************************************)
(* Properties of the rule engine and the classifier (SpecRow).             *)
(***************************************************************************)
Emitted == {nudges[i] : i \in DOMAIN nudges}

HighTier == {MsgOverspendHigh, MsgSavingsGapHigh, MsgRentHigh}

MediumTier == {MsgOverspendMedium, MsgSavingsGapMedium, MsgDiscretionaryHigh}

Unclassified == {MsgDiscretionaryMedium, MsgRentMedium, MsgLoan}

\* C1: the priority is High iff a high-tier nudge was emitted; otherwise
\* Medium iff a medium-tier nudge (Overspending-medium, SavingsGap-medium,
\* Discretionary-high) was emitted or there are at least 3 nudges; otherwise
\* Low iff the list is non-empty; otherwise None.
C1_FirstMatch ==
  pc = "classified" =>
    priority = (IF Emitted \cap HighTier # {} THEN "High"
                ELSE IF Emitted \cap MediumTier # {} \/ Len(nudges) >= 3 THEN "Medium"
                ELSE IF Len(nudges) > 0 THEN "Low"
                ELSE "None")

\* Discretionary-high alone has been classified Medium
C1_Witness ==
  pc = "classified" /\ nudges = <<MsgDiscretionaryHigh>> /\ priority = "Medium"

\* the value described by d lies above (below) the named threshold
Exceeds(d, tier) == IF tier = "high" THEN d[1] = "high" /\ d[2] > 0 ELSE d[1] = "high" \/ d[2] > 0

Below(d, tier) == IF tier = "high" THEN d[1] = "high" /\ d[2] < 0 ELSE d[1] = "high" \/ d[2] < 0

\* C2: each message is emitted exactly when its metric is strictly beyond its
\* threshold and, for a medium message, not beyond the high one; a value on
\* a threshold does not fire that tier.
C2_ThresholdTable ==
  pc # "row" =>
    /\ MsgOverspendHigh \in Emitted <=> Exceeds(inputs.utilization, "high")
    /\ MsgOverspendMedium \in Emitted <=>
         Exceeds(inputs.utilization, "medium") /\ ~Exceeds(inputs.utilization, "high")
    /\ MsgSavingsGapHigh \in Emitted <=> Below(inputs.savings, "high")
    /\ MsgSavingsGapMedium \in Emitted <=>
         Below(inputs.savings, "medium") /\ ~Below(inputs.savings, "high")
    /\ MsgDiscretionaryHigh \in Emitted <=> Exceeds(inputs.discretionary, "high")
    /\ MsgDiscretionaryMedium \in Emitted <=>
         Exceeds(inputs.discretionary, "medium") /\ ~Exceeds(inputs.discretionary, "high")
    /\ MsgRentHigh \in Emitted <=> Exceeds(inputs.rent, "high")
    /\ MsgRentMedium \in Emitted <=>
         Exceeds(inputs.rent, "medium") /\ ~Exceeds(inputs.rent, "high")
    /\ MsgLoan \in Emitted <=> Exceeds(inputs.loan, "high")

\* every metric on a threshold: utilization 1.0, savings gap -0.10,
\* discretionary 0.25, rent 0.40, loan 0.30
C2_Witness ==
  /\ pc = "nudged"
  /\ inputs.utilization = <<"high", 0>> /\ inputs.savings = <<"high", 0>>
  /\ inputs.discretionary = <<"medium", 0>> /\ inputs.rent = <<"high", 0>>
  /\ inputs.loan = <<"high", 0>>
  /\ nudges = <<MsgOverspendMedium, MsgSavingsGapMedium, MsgRentMedium>>

\* C3: the priority is None if and only if the nudge list is empty.
C3_NoneIffEmpty == pc = "classified" => (priority = "None" <=> nudges = <<>>)

\* an empty list has been classified
C3_Witness == pc = "classified" /\ nudges = <<>> /\ priority = "None"

Category(msg) ==
  IF msg \in {MsgOverspendHigh, MsgOverspendMedium} THEN 1
  ELSE IF msg \in {MsgSavingsGapHigh, MsgSavingsGapMedium} THEN 2
  ELSE IF msg \in {MsgDiscretionaryHigh, MsgDiscretionaryMedium} THEN 3
  ELSE IF msg \in {MsgRentHigh, MsgRentMedium} THEN 4
  ELSE IF msg = MsgLoan THEN 5
  ELSE 0

\* C9: the list holds at most one message per category, at most 5 messages,
\* in the order Overspending, SavingsGap, Discretionary, RentBurden, LoanBurden.
C9_OnePerCategoryInOrder ==
  pc # "row" =>
    /\ Len(nudges) <= 5
    /\ \A i \in DOMAIN nudges : Category(nudges[i]) \in 1..5
    /\ \A i, j \in DOMAIN nudges : i < j => Category(nudges[i]) < Category(nudges[j])

\* all five categories have fired
C9_Witness ==
  pc = "nudged" /\ Len(nudges) = 5 /\ nudges[1] = MsgOverspendHigh /\ nudges[5] = MsgLoan

(***************************************************************************)
(* Properties of a whole evaluation (Spec).                                *)
(***************************************************************************)
Metric(name) == Get(user_data, name)

\* Discretionary_to_Income strictly between 0.25 and 0.35, nothing fired in
\* another category
DiscretionaryMediumOnly ==
  /\ pc = "done"
  /\ FGt(Metric("Discretionary_to_Income"), DiscretionaryMedium)
  /\ FLt(Metric("Discretionary_to_Income"), DiscretionaryHigh)
  /\ \A i \in DOMAIN nudges : Category(nudges[i]) = 3

\* C4 as stated: with Discretionary_to_Income strictly between 0.25 and 0.35
\* and no nudge of another category, the medium discretionary nudge is the
\* only nudge and the priority is Medium.
C4_AsStated ==
  DiscretionaryMediumOnly => nudges = <<MsgDiscretionaryMedium>> /\ priority = "Medium"

\* C4: with Discretionary_to_Income strictly between 0.25 and 0.35 and no
\* nudge of another category, the medium discretionary nudge is the only
\* nudge and the priority is Low.
C4_DiscretionaryMediumAloneIsLow ==
  DiscretionaryMediumOnly => nudges = <<MsgDiscretionaryMedium>> /\ priority = "Low"

\* discretionary expenses of 0.30 x income and nothing else
C4_Witness ==
  /\ pc = "done"
  /\ inputs.income = Whole(MinIncome)
  /\ inputs.eating_out = Whole(3 * Step) /\ inputs.entertainment = Whole(3 * Step)
  /\ inputs.misc = Whole(0)
  /\ nudges = <<MsgDiscretionaryMedium>>
  /\ priority = "Low"

\* C5: an evaluation that fires exactly three nudges, none of them matched
\* by a high or medium pattern, has priority Medium.
C5_ThreeUnclassifiedIsMedium ==
  pc = "done" /\ Len(nudges) = 3 /\ Emitted \subseteq Unclassified => priority = "Medium"

\* the three unclassified nudges have fired in one evaluation, and no pattern
\* matches any of them
C5_Witness ==
  /\ pc = "done"
  /\ nudges = <<MsgDiscretionaryMedium, MsgRentMedium, MsgLoan>>
  /\ ~AnyMatch(HighPatterns \cup MediumPatterns, nudges)
  /\ priority = "Medium"

\* what C10 says of one finished evaluation
CountClauseIdle ==
  /\ Len(nudges) >= 3 => Emitted \cap (HighTier \cup MediumTier) # {}
  /\ Unclassified \subseteq Emitted =>
       /\ FGt(Metric("Disposable_Utilization"), OverspendMedium)
       /\ Emitted \cap {MsgOverspendHigh, MsgOverspendMedium} # {}
  /\ priority = "Medium" => Emitted \cap MediumTier # {}
  /\ priority = "Low" => Len(nudges) \in {1, 2} /\ Emitted \subseteq Unclassified

\* C10 as stated: in every evaluation of valid inputs, three or more nudges
\* include a high- or medium-tier one, the three unclassified nudges come
\* with an Overspending nudge, and the count clause decides no priority.
C10_AsStated == pc = "done" => CountClauseIdle

AmountFields ==
  {"income", "desired_savings", "actual_savings", "rent", "loan_repay", "insurance",
   "groceries", "transport", "utilities", "healthcare", "education", "eating_out",
   "entertainment", "misc"}

\* every amount was typed with at most two decimal places
WholeCents == \A f \in AmountFields : inputs[f].frac <= 2

\* C10: in every evaluation of valid inputs given in whole cents, three or
\* more nudges include a high- or medium-tier one, the three unclassified
\* nudges come with an Overspending nudge, and the count clause decides no
\* priority.
C10_CountClauseIdleInWholeCents == pc = "done" /\ WholeCents => CountClauseIdle

\* whole-cent inputs firing the three unclassified nudges, and an
\* Overspending nudge with them
C10_Witness ==
  /\ pc = "done"
  /\ WholeCents
  /\ Unclassified \subseteq Emitted
  /\ nudges[1] = MsgOverspendMedium
  /\ priority = "Medium"

(***************************************************************************)
(* Properties of the Analyze handler under failing predictors (SpecAnalyze).*)
(***************************************************************************)
PredictorRaises == stack.model.raises \/ stack.kmeans.raises \/ stack.pca.raises

\* C6: when a predictor call raises during Analyze, the evaluation ends in
\* one failure: a single error is shown, no adjustment, cluster, profile,
\* priority or nudge is emitted, and no predictor is called twice.
C6_SingleFailureNoPartialResult ==
  pc \in {"failed", "done"} /\ PredictorRaises =>
    /\ pc = "failed"
    /\ Len(shown) = 1 /\ shown[1][1] = "error"
    /\ nudges = <<>> /\ priority = "unset" /\ results = <<>>
    /\ \A k \in DOMAIN calls : calls[k] <= 1

\* the PCA call, the last of the three, raised after the other two returned,
\* for inputs whose rules fire
C6_Witness ==
  /\ pc = "failed"
  /\ ~stack.model.raises /\ ~stack.kmeans.raises /\ stack.pca.raises
  /\ calls = [scaler |-> 1, model |-> 1, kmeans |-> 1, pca |-> 1]
  /\ generate_nudges(user_data) # <<>>
  /\ nudges = <<>>

NotProvided == {"Credit_Score", "Occupation_Unemployed"}

\* C8: for a non-empty schema, input_df has the schema's keys in the schema's
\* order and the schema's length; a schema name the script does not provide
\* has value 0, a provided one has its value.
C8_SchemaOrder ==
  pc # "idle" /\ feature_cols # <<>> =>
    /\ Len(input_df) = Len(feature_cols)
    /\ \A i \in DOMAIN feature_cols :
         /\ input_df[i][1] = feature_cols[i]
         /\ feature_cols[i] \in NotProvided => input_df[i][2] = FZero
         /\ feature_cols[i] = "Income" => input_df[i][2] = inputs.income.value
         /\ feature_cols[i] = "Occupation_Student" =>
              input_df[i][2] = FromInt(IF inputs.occupation = "Student" THEN 1 ELSE 0)

\* a schema that reverses the order of user_data and names a missing column
C8_Witness ==
  /\ pc = "ready"
  /\ feature_cols = <<"Credit_Score", "Rent", "Income">>
  /\ input_df[1] = <<"Credit_Score", FZero>>
  /\ input_df[3] = <<"Income", inputs.income.value>>
  /\ "Dependents" \in Keys(user_data)

====
